---- MODULE Spec2Model ----
(***************************************************************************)
(* pumpbot: the menu (index.js) spawns one of five scripts per process:    *)
(* createToken, buyBot, sellBot, consolidate, fundWallets.  The scripts    *)
(* share three files: config/wallets.json (the active wallet set), .env    *)
(* (the credentials WALLET_<k>_PRIVATE_KEY) and                            *)
(* config/private_keys_backup.json (the backup history).                   *)
(*                                                                         *)
(* One action per await-delimited step of each script.  The remote         *)
(* services (trade quote API, IPFS upload, RPC node, Jito relay) are the   *)
(* environment: every call returns one of its possible outcomes.           *)
(* `net` is the history of calls the process made, `console` the history   *)
(* of lines it printed, `invoked` the history of per-wallet invocations.   *)
(***************************************************************************)
EXTENDS Integers, Sequences, FiniteSets, TLC

\* ---------------------------------------------------------------- bounds
MaxWallets == 2      \* longest wallet list / largest numberOfWallets answer
MaxBatches == 1      \* funding runs (backup batches appended) per behaviour
SubLamportDigits == 1  \* decimal digits below one lamport in a typed amount
MaxDelay == 3        \* largest delayRange bound tried on getRandomDelay alone

\* ------------------------------------------------------ program constants
DelayMin == 100
DelayMax == 1000
CreateSlippage == 10
LAMPORTS_PER_SOL == 1000000000
FixedDecimals == 4

\* Amounts a user types are decimals; they are counted here in units of
\* 10^-SubLamportDigits lamports, so that Math.floor(amount * LAMPORTS_PER_SOL)
\* and toFixed(4) are not the identity.
UnitsPerLamport == 10 ^ SubLamportDigits
FixedStep == (LAMPORTS_PER_SOL \div (10 ^ FixedDecimals)) * UnitsPerLamport

\* ------------------------------------------------------------- key pairs
\* A keypair is named by the batch that generated it and its index there.
\* Its secret key and its public key are both identified by that name.
Key(b, idx) == <<b, idx>>
NoKey == <<>>
FundingKey == Key(-1, 1)
BaseKey == Key(-1, 2)
WalletAKey == Key(-1, 3)
WalletBKey == Key(-1, 4)
MintKey == Key(-1, 5)

\* ---------------------------------------------------------------- inputs
Scripts == {"createToken", "buyBot", "sellBot", "consolidate", "fundWallets"}
SlippageInputs == {0, 1, 100, 101}
\* what is typed at sellBot's slippage and percentToSell prompts
SellInputs == {[slippage |-> 0, percentToSell |-> 100],
               [slippage |-> 1, percentToSell |-> 100],
               [slippage |-> 100, percentToSell |-> 50],
               [slippage |-> 101, percentToSell |-> 0]}
SolInputs == {0, 5, 25, 2000000}
TokenBalances == {0, 200}
DelayDraws == {0, 999}          \* Math.random() in thousandths: 0 <= r < 1
Balances == {0, 3000, 5000, 9000}
Fees == {5000}

VARIABLES
    script,          \* the script the menu spawned ("none" at the menu)
    pc,              \* position of the running script
    walletConfig,    \* config/wallets.json: [wallets, delayRange]
    env,             \* .env: k |-> key stored as WALLET_<k>_PRIVATE_KEY
    backup,          \* private_keys_backup.json: timestamp |-> batch
    clock,           \* wall clock, in funding runs
    answers,         \* the prompt answers of this run, and what the run
                     \* found of the secret it needs in .env
    i,               \* loop index of the batch loop
    shuffledWallets, \* sellBot: the shuffled copy of the wallet list
    cur,             \* the per-wallet call in flight: [index, wallet, key, amount]
    total,           \* totalFunded / totalConsolidated
    reported,        \* the total as printed, -1 while nothing is printed
    invoked,         \* per-wallet invocations, in order
    net,             \* calls to the remote services, in order
    console          \* lines printed, in order

vars == <<script, pc, walletConfig, env, backup, clock, answers, i,
          shuffledWallets, cur, total, reported, invoked, net, console>>

files == <<walletConfig, env, backup, clock>>

\* --------------------------------------------------------------- helpers
Wallet(name, pub, amount) == [name |-> name, publicKey |-> pub, amount |-> amount]
NoWallet == Wallet(0, NoKey, 0)
NoCur == [index |-> -1, wallet |-> NoWallet, key |-> NoKey, amount |-> 0]
NoAnswers == [confirm |-> FALSE, slippage |-> 0, percentToSell |-> 0,
              numberOfWallets |-> 0, solPerWallet |-> 0, secret |-> "unread"]

\* A call to a remote service (res = "call") or its answer (res = the
\* outcome), for the wallet named `who`, with the key that signs or asks.
Ev(op, res, who, key, to, v) ==
    [op |-> op, res |-> res, who |-> who, key |-> key, to |-> to, v |-> v]
Line(msg, who) == [msg |-> msg, who |-> who]

RECURSIVE SumSeq(_)
SumSeq(s) == IF s = <<>> THEN 0 ELSE Head(s) + SumSeq(Tail(s))

\* Mutant of EnvKey: the credential is looked up under the 0-based index.
EnvKeyOffByOne(walletIndex) ==
    IF walletIndex \in DOMAIN env THEN env[walletIndex] ELSE NoKey

\* process.env[`WALLET_${walletIndex + 1}_PRIVATE_KEY`]
EnvKey(walletIndex) ==
    IF walletIndex + 1 \in DOMAIN env THEN env[walletIndex + 1] ELSE NoKey

wallets == walletConfig.wallets

\* ------------------------------------------------------------------ Init
\* A wallet list a user can have in wallets.json: n wallets, each with the
\* public key of its own keypair and a positive amount; the names are either
\* all distinct ("Wallet 1", "Wallet 2", ...) or, for a hand-edited list,
\* all the same.
InitWallets(n, sameName) ==
    [p \in 1..n |-> Wallet(IF sameName THEN 1 ELSE p, Key(0, p), p)]

\* The credentials in .env: every wallet's key, or all but the one at `gap`
\* (the first one, when there is a gap).
InitEnv(gap) ==
    [k \in 1..MaxWallets |-> IF k = gap THEN NoKey ELSE Key(0, k)]

Init ==
    /\ script = "none"
    /\ pc = "menu"
    /\ \E n \in 0..MaxWallets, sameName \in BOOLEAN :
          /\ sameName => n >= 2
          /\ walletConfig = [wallets |-> InitWallets(n, sameName),
                             delayRange |-> [min |-> DelayMin, max |-> DelayMax]]
    /\ \E gap \in {0, 1} : env = InitEnv(gap)
    /\ backup = [t \in {0} |->
                    [privateKeys |-> [k \in 1..MaxWallets |-> Key(0, k)],
                     walletPublicKeys |-> [k \in 1..MaxWallets |-> Key(0, k)]]]
    /\ clock = 0
    /\ answers = NoAnswers
    /\ i = 0
    /\ shuffledWallets = <<>>
    /\ cur = NoCur
    /\ total = 0
    /\ reported = -1
    /\ invoked = <<>>
    /\ net = <<>>
    /\ console = <<>>

\* ---------------------------------------------------------------- index.js
\* main(): the menu answer selects the script to spawn.  A funding run
\* appends a backup batch, so the number of funding runs is bounded.
runScript(scriptName) ==
    /\ pc = "menu"
    /\ scriptName = "fundWallets" => clock < MaxBatches
    /\ script' = scriptName
    /\ pc' = "main"
    /\ UNCHANGED <<files, answers, i, shuffledWallets, cur, total, reported,
                   invoked, net, console>>

\* The child closes, the menu process ends; a later process starts with the
\* files as they are and nothing else.
NewProcess ==
    /\ pc = "done"
    /\ script' = "none"
    /\ pc' = "menu"
    /\ answers' = NoAnswers
    /\ i' = 0
    /\ shuffledWallets' = <<>>
    /\ cur' = NoCur
    /\ total' = 0
    /\ reported' = -1
    /\ invoked' = <<>>
    /\ net' = <<>>
    /\ console' = <<>>
    /\ UNCHANGED files

\* ---------------------------------------------------------- prompt checks
\* validate of 'slippage' and of 'percentToSell': a number from 1 to 100
ValidPercent(input) == ~(input < 1 \/ input > 100)
\* validate of 'amount', 'priorityFee', 'solPerWallet': greater than 0
ValidAmount(input) == ~(input <= 0)

\* Mutant of getRandomDelay: the range is scaled by max - min, so that max
\* is never drawn.
getRandomDelayExclusive(min, max, r) == (r * (max - min) + min * 1000) \div 1000

\* getRandomDelay(min, max) with Math.random() = r / 1000
getRandomDelay(min, max, r) == (r * (max - min + 1) + min * 1000) \div 1000

\* ---------------------------------------------------------------- buyBot.js
\* Mutant of BuyMain: the answer to the confirmation is not looked at.
BuyMainIgnoresConfirm ==
    /\ script = "buyBot" /\ pc = "main"
    /\ \E slip \in SlippageInputs, confirm \in BOOLEAN :
          /\ ValidPercent(slip)
          /\ answers' = [NoAnswers EXCEPT !.slippage = slip, !.confirm = confirm]
          /\ pc' = "loop"
          /\ console' = Append(console, Line("Starting multi-wallet buy sequence", 0))
    /\ i' = 0
    /\ UNCHANGED <<script, files, shuffledWallets, cur, total, reported, invoked, net>>

\* main(): the questions, the summary, the confirmation.
BuyMain ==
    /\ script = "buyBot" /\ pc = "main"
    /\ \E slip \in SlippageInputs, confirm \in BOOLEAN :
          /\ ValidPercent(slip)
          /\ answers' = [NoAnswers EXCEPT !.slippage = slip, !.confirm = confirm]
          /\ IF confirm
                THEN /\ pc' = "loop"
                     /\ console' = Append(console, Line("Starting multi-wallet buy sequence", 0))
                ELSE /\ pc' = "done"
                     /\ console' = Append(console, Line("Operation cancelled", 0))
    /\ i' = 0
    /\ UNCHANGED <<script, files, shuffledWallets, cur, total, reported, invoked, net>>

\* Mutant of BuySleep: the delay is taken before every wallet, the first
\* included (the test i > 0 is missing).
BuySleepBeforeFirst ==
    /\ script = "buyBot" /\ pc = "loop"
    /\ i < Len(wallets)
    /\ \E r \in DelayDraws :
          net' = Append(net, Ev("sleep", "call", 0, NoKey, NoKey,
                    getRandomDelay(walletConfig.delayRange.min,
                                   walletConfig.delayRange.max, r)))
    /\ pc' = "call"
    /\ UNCHANGED <<script, files, answers, i, shuffledWallets, cur, total,
                   reported, invoked, console>>

\* executeMultiWalletBuy: the delay before wallet i > 0.
BuySleep ==
    /\ script = "buyBot" /\ pc = "loop"
    /\ i < Len(wallets) /\ i > 0
    /\ \E r \in DelayDraws :
          net' = Append(net, Ev("sleep", "call", 0, NoKey, NoKey,
                    getRandomDelay(walletConfig.delayRange.min,
                                   walletConfig.delayRange.max, r)))
    /\ pc' = "call"
    /\ UNCHANGED <<script, files, answers, i, shuffledWallets, cur, total,
                   reported, invoked, console>>

\* Mutant of BuyWallet: the loop walks the list from its end.
BuyWalletReversed(j) == wallets[Len(wallets) - j]

\* The wallet and the walletIndex executeMultiWalletBuy passes at index j.
BuyWallet(j) == wallets[j + 1]
BuyIndex(j) == j

\* Mutant of ExecuteBuyWithWallet: the loop does not await the call and
\* goes on to the next wallet while the quote request is out.
ExecuteBuyWithWalletNotAwaited ==
    /\ script = "buyBot"
    /\ \/ pc = "loop" /\ i = 0 /\ i < Len(wallets)
       \/ pc = "call"
    /\ LET walletInfo == BuyWallet(i)
           walletIndex == BuyIndex(i)
           walletPrivateKey == EnvKey(walletIndex)
       IN /\ invoked' = Append(invoked, [wallet |-> walletInfo, index |-> walletIndex])
          /\ pc' = "loop"
          /\ i' = i + 1
          /\ IF walletPrivateKey = NoKey
                THEN /\ console' = Append(console, Line("Skipping wallet - No private key found", walletIndex + 1))
                     /\ UNCHANGED <<cur, net>>
                ELSE /\ console' = Append(console, Line("Executing buy with", walletInfo.name))
                     /\ net' = Append(net, Ev("quote", "call", walletInfo.name, walletPrivateKey, NoKey, walletInfo.amount))
                     /\ cur' = [index |-> walletIndex, wallet |-> walletInfo,
                                key |-> walletPrivateKey, amount |-> walletInfo.amount]
    /\ UNCHANGED <<script, files, answers, shuffledWallets, total, reported>>

\* The slippage a quote request carries: baseParams.slippage in buy and
\* sell, the literal 10 in createTokenBundle.
QuoteSlippage ==
    IF script = "createToken" THEN CreateSlippage ELSE answers.slippage

\* executeBuyWithWallet, up to the quote request.
ExecuteBuyWithWallet ==
    /\ script = "buyBot"
    /\ \/ pc = "loop" /\ i = 0 /\ i < Len(wallets)
       \/ pc = "call"
    /\ LET walletInfo == BuyWallet(i)
           walletIndex == BuyIndex(i)
           walletPrivateKey == EnvKey(walletIndex)
       IN /\ invoked' = Append(invoked, [wallet |-> walletInfo, index |-> walletIndex])
          /\ IF walletPrivateKey = NoKey
                THEN /\ console' = Append(console, Line("Skipping wallet - No private key found", walletIndex + 1))
                     /\ pc' = "loop"
                     /\ i' = i + 1
                     /\ UNCHANGED <<cur, net>>
                ELSE /\ console' = Append(console, Line("Executing buy with", walletInfo.name))
                     /\ net' = Append(net, Ev("quote", "call", walletInfo.name, walletPrivateKey, NoKey, walletInfo.amount))
                     /\ cur' = [index |-> walletIndex, wallet |-> walletInfo,
                                key |-> walletPrivateKey, amount |-> walletInfo.amount]
                     /\ pc' = "quote"
                     /\ UNCHANGED i
    /\ UNCHANGED <<script, files, answers, shuffledWallets, total, reported>>

\* What a request to the trade quote API can do: throw (network error),
\* answer with a status other than 200, answer 200 with bytes that do not
\* deserialize, or answer 200 with a transaction.
QuoteOutcomes == {"throw", "non200", "badTx", "ok"}
\* What a submission to the RPC node or a query of it can do.
RpcOutcomes == {"throw", "ok"}

\* executeBuyWithWallet, from the quote response to the submission.
BuyQuoteReturn ==
    /\ script = "buyBot" /\ pc = "quote"
    /\ \E outcome \in QuoteOutcomes :
          LET answer == Ev("quote", outcome, cur.wallet.name, cur.key, NoKey, cur.amount)
          IN CASE outcome = "ok" ->
                  /\ net' = net \o
                        <<answer,
                          Ev("sign", "call", cur.wallet.name, cur.key, NoKey, cur.amount),
                          Ev("send", "call", cur.wallet.name, cur.key, NoKey, cur.amount)>>
                  /\ pc' = "send"
                  /\ UNCHANGED <<i, cur, console>>
            [] outcome = "non200" ->
                  /\ net' = Append(net, answer)
                  /\ pc' = "loop"
                  /\ i' = i + 1
                  /\ cur' = NoCur
                  /\ UNCHANGED console
            [] OTHER ->
                  /\ net' = Append(net, answer)
                  /\ console' = Append(console, Line("Error with", cur.wallet.name))
                  /\ pc' = "loop"
                  /\ i' = i + 1
                  /\ cur' = NoCur
    /\ UNCHANGED <<script, files, answers, shuffledWallets, total, reported, invoked>>

\* Mutant of BuySendReturn: a submission that throws is not caught in
\* executeBuyWithWallet and ends main in its catch.
BuySendReturnAborts ==
    /\ script = "buyBot" /\ pc = "send"
    /\ \E outcome \in RpcOutcomes :
          /\ net' = Append(net, Ev("send", outcome, cur.wallet.name, cur.key, NoKey, cur.amount))
          /\ IF outcome = "ok"
                THEN /\ console' = Append(console, Line("Success!", cur.wallet.name))
                     /\ pc' = "loop"
                     /\ i' = i + 1
                ELSE /\ console' = Append(console, Line("An error occurred:", 0))
                     /\ pc' = "done"
                     /\ i' = i
    /\ cur' = NoCur
    /\ UNCHANGED <<script, files, answers, shuffledWallets, total, reported, invoked>>

\* executeBuyWithWallet, the answer of sendTransaction.
BuySendReturn ==
    /\ script = "buyBot" /\ pc = "send"
    /\ \E outcome \in RpcOutcomes :
          /\ net' = Append(net, Ev("send", outcome, cur.wallet.name, cur.key, NoKey, cur.amount))
          /\ IF outcome = "ok"
                THEN console' = Append(console, Line("Success!", cur.wallet.name))
                ELSE console' = Append(console, Line("Error with", cur.wallet.name))
    /\ pc' = "loop"
    /\ i' = i + 1
    /\ cur' = NoCur
    /\ UNCHANGED <<script, files, answers, shuffledWallets, total, reported, invoked>>

\* executeMultiWalletBuy returns; main prints the completion line.
BuyFinish ==
    /\ script = "buyBot" /\ pc = "loop"
    /\ ~(i < Len(wallets))
    /\ console' = Append(console, Line("Multi-wallet buy sequence completed!", 0))
    /\ pc' = "done"
    /\ UNCHANGED <<script, files, answers, i, shuffledWallets, cur, total,
                   reported, invoked, net>>

\* --------------------------------------------------------------- sellBot.js
\* Mutant of Shuffles: each position is drawn from the list independently,
\* so a wallet can come twice and another not at all.
ShufflesWithRepeats(ws) ==
    { [j \in 1..Len(ws) |-> ws[f[j]]] : f \in [1..Len(ws) -> 1..Len(ws)] }

\* [...walletConfig.wallets].sort(() => Math.random() - 0.5): the copy in
\* some order the sort leaves it in; a sort moves elements, it neither
\* drops nor duplicates one.
Shuffles(ws) ==
    { [j \in 1..Len(ws) |-> ws[f[j]]] : f \in Permutations(1..Len(ws)) }

\* walletConfig.wallets.findIndex(w => w.name === name)
RECURSIVE findIndexFrom(_, _, _)
findIndexFrom(ws, name, p) ==
    IF p > Len(ws) THEN -1
    ELSE IF ws[p].name = name THEN p - 1
    ELSE findIndexFrom(ws, name, p + 1)
findIndex(ws, name) == findIndexFrom(ws, name, 1)

\* main(): the questions, the summary, the confirmation, the shuffle.
SellMain ==
    /\ script = "sellBot" /\ pc = "main"
    /\ \E typed \in SellInputs, confirm \in BOOLEAN :
          /\ ValidPercent(typed.slippage) /\ ValidPercent(typed.percentToSell)
          /\ answers' = [NoAnswers EXCEPT !.slippage = typed.slippage,
                                          !.percentToSell = typed.percentToSell,
                                          !.confirm = confirm]
          /\ IF confirm
                THEN /\ pc' = "loop"
                     /\ console' = Append(console, Line("Starting multi-wallet sell sequence", 0))
                     /\ shuffledWallets' \in Shuffles(wallets)
                ELSE /\ pc' = "done"
                     /\ console' = Append(console, Line("Operation cancelled", 0))
                     /\ UNCHANGED shuffledWallets
    /\ i' = 0
    /\ UNCHANGED <<script, files, cur, total, reported, invoked, net>>

\* executeMultiWalletSell: the delay before the wallet at index i > 0.
SellSleep ==
    /\ script = "sellBot" /\ pc = "loop"
    /\ i < Len(shuffledWallets) /\ i > 0
    /\ \E r \in DelayDraws :
          net' = Append(net, Ev("sleep", "call", 0, NoKey, NoKey,
                    getRandomDelay(walletConfig.delayRange.min,
                                   walletConfig.delayRange.max, r)))
    /\ pc' = "call"
    /\ UNCHANGED <<script, files, answers, i, shuffledWallets, cur, total,
                   reported, invoked, console>>

\* executeSellWithWallet, up to the token account query.
ExecuteSellWithWallet ==
    /\ script = "sellBot"
    /\ \/ pc = "loop" /\ i = 0 /\ i < Len(shuffledWallets)
       \/ pc = "call"
    /\ LET walletInfo == shuffledWallets[i + 1]
           walletIndex == findIndex(wallets, walletInfo.name)
           walletPrivateKey == EnvKey(walletIndex)
       IN /\ invoked' = Append(invoked, [wallet |-> walletInfo, index |-> walletIndex])
          /\ IF walletPrivateKey = NoKey
                THEN /\ console' = Append(console, Line("Skipping wallet - No private key found", walletIndex + 1))
                     /\ pc' = "loop"
                     /\ i' = i + 1
                     /\ UNCHANGED <<cur, net>>
                ELSE /\ console' = Append(console, Line("Executing sell with", walletInfo.name))
                     /\ net' = Append(net, Ev("getTokenAccounts", "call", walletInfo.name, walletPrivateKey, NoKey, 0))
                     /\ cur' = [index |-> walletIndex, wallet |-> walletInfo,
                                key |-> walletPrivateKey, amount |-> 0]
                     /\ pc' = "accounts"
                     /\ UNCHANGED i
    /\ UNCHANGED <<script, files, answers, shuffledWallets, total, reported>>

\* amountToSell of executeSellWithWallet
amountToSell(tokenBalance, percentToSell) ==
    IF percentToSell = 100 THEN tokenBalance
    ELSE (tokenBalance * percentToSell) \div 100

\* executeSellWithWallet, from the token accounts to the quote request.
\* The query throws, finds no token account, or finds one with a balance.
SellAccountsReturn ==
    /\ script = "sellBot" /\ pc = "accounts"
    /\ LET answer(res, v) == Ev("getTokenAccounts", res, cur.wallet.name, cur.key, NoKey, v)
       IN \/ /\ net' = Append(net, answer("throw", 0))
             /\ console' = Append(console, Line("Error with", cur.wallet.name))
             /\ pc' = "loop" /\ i' = i + 1 /\ cur' = NoCur
          \/ /\ net' = Append(net, answer("empty", 0))
             /\ console' = Append(console, Line("No token balance found for", cur.wallet.name))
             /\ pc' = "loop" /\ i' = i + 1 /\ cur' = NoCur
          \/ \E tokenBalance \in TokenBalances :
                LET amount == amountToSell(tokenBalance, answers.percentToSell)
                IN IF amount <= 0
                      THEN /\ net' = Append(net, answer("ok", tokenBalance))
                           /\ console' = Append(console, Line("Insufficient balance for", cur.wallet.name))
                           /\ pc' = "loop" /\ i' = i + 1 /\ cur' = NoCur
                      ELSE /\ net' = net \o
                                 <<answer("ok", tokenBalance),
                                   Ev("quote", "call", cur.wallet.name, cur.key, NoKey, amount)>>
                           /\ cur' = [cur EXCEPT !.amount = amount]
                           /\ pc' = "quote"
                           /\ UNCHANGED <<i, console>>
    /\ UNCHANGED <<script, files, answers, shuffledWallets, total, reported, invoked>>

\* executeSellWithWallet, from the quote response to the submission.
SellQuoteReturn ==
    /\ script = "sellBot" /\ pc = "quote"
    /\ \E outcome \in QuoteOutcomes :
          LET answer == Ev("quote", outcome, cur.wallet.name, cur.key, NoKey, cur.amount)
          IN CASE outcome = "ok" ->
                  /\ net' = net \o
                        <<answer,
                          Ev("sign", "call", cur.wallet.name, cur.key, NoKey, cur.amount),
                          Ev("send", "call", cur.wallet.name, cur.key, NoKey, cur.amount)>>
                  /\ pc' = "send"
                  /\ UNCHANGED <<i, cur, console>>
            [] outcome = "non200" ->
                  /\ net' = Append(net, answer)
                  /\ pc' = "loop"
                  /\ i' = i + 1
                  /\ cur' = NoCur
                  /\ UNCHANGED console
            [] OTHER ->
                  /\ net' = Append(net, answer)
                  /\ console' = Append(console, Line("Error with", cur.wallet.name))
                  /\ pc' = "loop"
                  /\ i' = i + 1
                  /\ cur' = NoCur
    /\ UNCHANGED <<script, files, answers, shuffledWallets, total, reported, invoked>>

\* executeSellWithWallet, the answer of sendTransaction.
SellSendReturn ==
    /\ script = "sellBot" /\ pc = "send"
    /\ \E outcome \in RpcOutcomes :
          /\ net' = Append(net, Ev("send", outcome, cur.wallet.name, cur.key, NoKey, cur.amount))
          /\ IF outcome = "ok"
                THEN console' = Append(console, Line("Success!", cur.wallet.name))
                ELSE console' = Append(console, Line("Error with", cur.wallet.name))
    /\ pc' = "loop"
    /\ i' = i + 1
    /\ cur' = NoCur
    /\ UNCHANGED <<script, files, answers, shuffledWallets, total, reported, invoked>>

\* executeMultiWalletSell returns; main prints the completion line.
SellFinish ==
    /\ script = "sellBot" /\ pc = "loop"
    /\ ~(i < Len(shuffledWallets))
    /\ console' = Append(console, Line("Multi-wallet sell sequence completed!", 0))
    /\ pc' = "done"
    /\ UNCHANGED <<script, files, answers, i, shuffledWallets, cur, total,
                   reported, invoked, net>>

\* ------------------------------------------------------------ consolidate.js
\* process.env.BASE_WALLET_ADDRESS: absent, not an address, or an address.
BaseAddresses == {"missing", "malformed", "valid"}

\* main(): the checks of BASE_WALLET_ADDRESS and the confirmation.
ConsolidateMain ==
    /\ script = "consolidate" /\ pc = "main"
    /\ \E base \in BaseAddresses, confirm \in BOOLEAN :
          CASE base = "missing" ->
                  /\ console' = Append(console, Line("BASE_WALLET_ADDRESS not found in .env file", 0))
                  /\ pc' = "done"
                  /\ answers' = [NoAnswers EXCEPT !.secret = base]
            [] base = "malformed" ->
                  /\ console' = Append(console, Line("Invalid BASE_WALLET_ADDRESS in .env file", 0))
                  /\ pc' = "done"
                  /\ answers' = [NoAnswers EXCEPT !.secret = base]
            [] OTHER ->
                  /\ answers' = [NoAnswers EXCEPT !.confirm = confirm, !.secret = base]
                  /\ IF confirm
                        THEN /\ console' = Append(console, Line("Starting consolidation process", 0))
                             /\ pc' = "loop"
                        ELSE /\ console' = Append(console, Line("Operation cancelled", 0))
                             /\ pc' = "done"
    /\ i' = 0
    /\ total' = 0
    /\ UNCHANGED <<script, files, shuffledWallets, cur, reported, invoked, net>>

\* main(): one turn of the loop.  baseWalletPublicKey is declared with const
\* inside the block of the inner try (line 127) and is not in scope here:
\* evaluating the argument of consolidateWallet(i, baseWalletPublicKey)
\* throws a ReferenceError before the call, the outer catch prints it and
\* main returns.
ConsolidateLoop ==
    /\ script = "consolidate" /\ pc = "loop"
    /\ i < Len(wallets)
    /\ console' = Append(console, Line("An error occurred:", 0))
    /\ pc' = "done"
    /\ UNCHANGED <<script, files, answers, i, shuffledWallets, cur, total,
                   reported, invoked, net>>

\* totalConsolidated.toFixed(4) and totalFunded.toFixed(4): the total
\* rounded to four decimals of a SOL.
toFixed4(x) == ((x + (FixedStep \div 2)) \div FixedStep) * FixedStep

\* main(): the loop is over, the total is printed.
ConsolidateFinish ==
    /\ script = "consolidate" /\ pc = "loop"
    /\ ~(i < Len(wallets))
    /\ console' = Append(console, Line("Consolidation completed!", 0))
    /\ reported' = toFixed4(total)
    /\ pc' = "done"
    /\ UNCHANGED <<script, files, answers, i, shuffledWallets, cur, total,
                   invoked, net>>

\* consolidateWallet(walletIndex, baseWalletPublicKey), up to the balance
\* query.  cur.index is the walletIndex of the call.
ConsolidateWallet ==
    /\ script = "consolidate" /\ pc = "consolidateWallet"
    /\ LET walletIndex == cur.index
           walletPrivateKey == EnvKey(walletIndex)
       IN /\ invoked' = Append(invoked, [wallet |-> wallets[walletIndex + 1], index |-> walletIndex])
          /\ IF walletPrivateKey = NoKey
                THEN /\ console' = Append(console, Line("Skipping wallet - No private key found", walletIndex + 1))
                     /\ pc' = "returned"
                     /\ UNCHANGED <<cur, net>>
                ELSE /\ net' = Append(net, Ev("getBalance", "call", walletIndex + 1,
                                              walletPrivateKey, NoKey, 0))
                     /\ cur' = [cur EXCEPT !.key = walletPrivateKey]
                     /\ pc' = "balance"
                     /\ UNCHANGED console
    /\ UNCHANGED <<script, files, answers, i, shuffledWallets, total, reported>>

\* getWalletBalance returns 0 when the query throws; consolidateWallet skips
\* the wallet when balance <= 0 and asks for the blockhash and the fee
\* otherwise.  cur.amount holds the balance, in lamports.
ConsolidateBalanceReturn ==
    /\ script = "consolidate" /\ pc = "balance"
    /\ \E outcome \in RpcOutcomes, queried \in Balances :
          LET balance == IF outcome = "throw" THEN 0 ELSE queried
              answer == Ev("getBalance", outcome, cur.index + 1, cur.key, NoKey, queried)
              printed == IF outcome = "throw"
                            THEN Append(console, Line("Error fetching balance", 0))
                            ELSE console
          IN /\ outcome = "throw" => queried = 0
             /\ IF balance <= 0
                   THEN /\ console' = Append(printed, Line("Skipping wallet - No balance", cur.index + 1))
                        /\ net' = Append(net, answer)
                        /\ pc' = "returned"
                        /\ UNCHANGED cur
                   ELSE /\ console' = Append(printed, Line("Processing Wallet", cur.index + 1))
                        /\ net' = net \o <<answer,
                                           Ev("getFee", "call", cur.index + 1, cur.key, NoKey, 0)>>
                        /\ cur' = [cur EXCEPT !.amount = balance]
                        /\ pc' = "fee"
    /\ UNCHANGED <<script, files, answers, i, shuffledWallets, total, reported, invoked>>

\* The lamports of the transfer consolidateWallet builds:
\* balance * LAMPORTS_PER_SOL - fee, balance being the lamports queried
\* divided by LAMPORTS_PER_SOL.
TransferLamports(balance, fee) == balance - fee

\* consolidateWallet, from the blockhash and the fee to the submission of
\* the transfer to baseWalletPublicKey.
ConsolidateFeeReturn ==
    /\ script = "consolidate" /\ pc = "fee"
    /\ \/ /\ net' = Append(net, Ev("getFee", "throw", cur.index + 1, cur.key, NoKey, 0))
          /\ console' = Append(console, Line("Error consolidating wallet", cur.index + 1))
          /\ pc' = "returned"
          /\ UNCHANGED cur
       \/ \E fee \in Fees :
             /\ net' = net \o
                   <<Ev("getFee", "ok", cur.index + 1, cur.key, NoKey, fee),
                     Ev("send", "call", cur.index + 1, cur.key, BaseKey,
                        TransferLamports(cur.amount, fee))>>
             /\ cur' = [cur EXCEPT !.amount = TransferLamports(cur.amount, fee)]
             /\ pc' = "send"
             /\ UNCHANGED console
    /\ UNCHANGED <<script, files, answers, i, shuffledWallets, total, reported, invoked>>

\* consolidateWallet, the answer of sendTransaction: the amount sent is
\* returned, or 0.  total holds the value returned, in units.
ConsolidateSendReturn ==
    /\ script = "consolidate" /\ pc = "send"
    /\ \E outcome \in RpcOutcomes :
          /\ net' = Append(net, Ev("send", outcome, cur.index + 1, cur.key, BaseKey, cur.amount))
          /\ IF outcome = "ok"
                THEN /\ console' = Append(console, Line("Transfer successful!", cur.index + 1))
                     /\ total' = total + cur.amount * UnitsPerLamport
                ELSE /\ console' = Append(console, Line("Error consolidating wallet", cur.index + 1))
                     /\ UNCHANGED total
    /\ pc' = "returned"
    /\ UNCHANGED <<script, files, answers, i, shuffledWallets, cur, reported, invoked>>

\* ------------------------------------------------------------ fundWallets.js
\* main(): the check of FUNDING_WALLET_PRIVATE_KEY and the two questions.
FundMain ==
    /\ script = "fundWallets" /\ pc = "main"
    /\ \E hasFundingKey \in BOOLEAN, n \in 0..MaxWallets, sol \in SolInputs :
          IF ~hasFundingKey
             THEN /\ n = 0 /\ sol = 0
                  /\ console' = Append(console, Line("FUNDING_WALLET_PRIVATE_KEY not found in .env file", 0))
                  /\ pc' = "done"
                  /\ answers' = [NoAnswers EXCEPT !.secret = "missing"]
             ELSE /\ ~(n < 1) /\ ValidAmount(sol)
                  /\ answers' = [NoAnswers EXCEPT !.numberOfWallets = n, !.solPerWallet = sol,
                                                  !.secret = "valid"]
                  /\ console' = Append(console, Line("Generating wallets...", 0))
                  /\ pc' = "generate"
    /\ UNCHANGED <<script, files, i, shuffledWallets, cur, total, reported, invoked, net>>

\* new Date().toISOString(): runs are minutes apart, the clock has moved on
\* since any earlier batch was written.
Timestamp == clock + 1

\* generateAndSaveWallets: the wallets generated, and their private keys.
GeneratedWallets(n) == [p \in 1..n |-> Wallet(p, Key(Timestamp, p), 0)]
GeneratedPrivateKeys(n) == [k \in 1..n |-> Key(Timestamp, k)]

\* Mutant of MergedBackup: the backup is written with the new batch alone.
MergedBackupOverwrites(existingPrivateKeys, timestamp, privateKeys, generated) ==
    [t \in {timestamp} |->
        [privateKeys |-> privateKeys,
         walletPublicKeys |-> [p \in 1..Len(generated) |-> generated[p].publicKey]]]

\* Mutant of MergedBackup: the new batch is stored with the public keys
\* alone (the spread of privateKeys is missing).
MergedBackupWithoutKeys(existingPrivateKeys, timestamp, privateKeys, generated) ==
    [t \in DOMAIN existingPrivateKeys \cup {timestamp} |->
        IF t = timestamp
           THEN [privateKeys |-> <<>>,
                 walletPublicKeys |-> [p \in 1..Len(generated) |-> generated[p].publicKey]]
           ELSE existingPrivateKeys[t]]

\* generateAndSaveWallets: the backup with the new batch added under the
\* timestamp.
MergedBackup(existingPrivateKeys, timestamp, privateKeys, generated) ==
    [t \in DOMAIN existingPrivateKeys \cup {timestamp} |->
        IF t = timestamp
           THEN [privateKeys |-> privateKeys,
                 walletPublicKeys |-> [p \in 1..Len(generated) |-> generated[p].publicKey]]
           ELSE existingPrivateKeys[t]]

\* Mutant of UpdatedEnv: a key is replaced where .env has it and is not
\* added where it has not.
UpdatedEnvReplaceOnly(envContent, privateKeys) ==
    [k \in DOMAIN envContent |->
        IF k \in DOMAIN privateKeys /\ envContent[k] # NoKey
           THEN privateKeys[k] ELSE envContent[k]]

\* generateAndSaveWallets: .env with every WALLET_<k>_PRIVATE_KEY of the
\* batch replaced, or added.
UpdatedEnv(envContent, privateKeys) ==
    [k \in DOMAIN envContent \cup DOMAIN privateKeys |->
        IF k \in DOMAIN privateKeys THEN privateKeys[k] ELSE envContent[k]]

\* The three files are written in this order; a write that throws leaves
\* the later files as they were and ends main in its catch.
WriteFailures == {"none", "wallets.json", "private_keys_backup.json", ".env"}

FundGenerate ==
    /\ script = "fundWallets" /\ pc = "generate"
    /\ LET n == answers.numberOfWallets
           generated == GeneratedWallets(n)
           privateKeys == GeneratedPrivateKeys(n)
       IN \E failure \in WriteFailures :
             /\ walletConfig' =
                   IF failure = "wallets.json" THEN walletConfig
                   ELSE [wallets |-> generated,
                         delayRange |-> [min |-> DelayMin, max |-> DelayMax]]
             /\ backup' =
                   IF failure \in {"wallets.json", "private_keys_backup.json"} THEN backup
                   ELSE MergedBackup(backup, Timestamp, privateKeys, generated)
             /\ env' =
                   IF failure = "none" THEN UpdatedEnv(env, privateKeys) ELSE env
             /\ IF failure = "none"
                   THEN /\ console' = console \o <<Line("Wallets generated and saved!", 0),
                                                   Line("Starting funding process...", 0)>>
                        /\ pc' = "loop"
                   ELSE /\ console' = Append(console, Line("An error occurred:", 0))
                        /\ pc' = "done"
    /\ clock' = Timestamp
    /\ i' = 0
    /\ total' = 0
    /\ UNCHANGED <<script, answers, shuffledWallets, cur, reported, invoked, net>>

\* Math.floor(amount * LAMPORTS_PER_SOL) of fundWallet, amount in units.
Lamports(amount) == amount \div UnitsPerLamport

\* The wallet the funding loop takes at index j.  The loop runs over the
\* list generateAndSaveWallets returned, which is the list it has just
\* written to wallets.json.
FundWallet(j) == wallets[j + 1]

\* main(): one turn of the funding loop, up to sendTransaction in fundWallet.
FundWalletCall ==
    /\ script = "fundWallets" /\ pc = "loop"
    /\ i < Len(wallets)
    /\ LET wallet == FundWallet(i)
       IN /\ invoked' = Append(invoked, [wallet |-> wallet, index |-> i])
          /\ console' = Append(console, Line("Funding", wallet.name))
          /\ net' = Append(net, Ev("send", "call", wallet.name, FundingKey,
                                   wallet.publicKey, Lamports(answers.solPerWallet)))
          /\ cur' = [index |-> i, wallet |-> wallet, key |-> FundingKey,
                     amount |-> answers.solPerWallet]
    /\ pc' = "send"
    /\ UNCHANGED <<script, files, answers, i, shuffledWallets, total, reported>>

\* Mutant of FundFailed: the error is not caught in the loop and ends main.
FundFailedAborts ==
    /\ console' = Append(console, Line("An error occurred:", 0))
    /\ pc' = "done"
    /\ i' = i
    /\ UNCHANGED total

\* Mutant of FundFailed: the amount is added to the total before the
\* transfer is known to have gone through.
FundFailedCounted ==
    /\ console' = Append(console, Line("Error funding", cur.wallet.name))
    /\ pc' = "loop"
    /\ i' = i + 1
    /\ total' = total + cur.amount

\* What the funding loop does when fundWallet throws: the catch inside the
\* loop prints the error with the wallet's name and the loop goes on.
FundFailed ==
    /\ console' = Append(console, Line("Error funding", cur.wallet.name))
    /\ pc' = "loop"
    /\ i' = i + 1
    /\ UNCHANGED total

\* main(): the answer of fundWallet.
FundSendReturn ==
    /\ script = "fundWallets" /\ pc = "send"
    /\ \E outcome \in RpcOutcomes :
          /\ net' = Append(net, Ev("send", outcome, cur.wallet.name, FundingKey,
                                   cur.wallet.publicKey, Lamports(cur.amount)))
          /\ IF outcome = "ok"
                THEN /\ console' = Append(console, Line("Transfer successful!", cur.wallet.name))
                     /\ total' = total + cur.amount
                     /\ pc' = "loop"
                     /\ i' = i + 1
                ELSE FundFailed
    /\ cur' = NoCur
    /\ UNCHANGED <<script, files, answers, shuffledWallets, reported, invoked>>

\* main(): the loop is over, the total is printed.
FundFinish ==
    /\ script = "fundWallets" /\ pc = "loop"
    /\ ~(i < Len(wallets))
    /\ console' = Append(console, Line("Funding completed!", 0))
    /\ reported' = toFixed4(total)
    /\ pc' = "done"
    /\ UNCHANGED <<script, files, answers, i, shuffledWallets, cur, total,
                   invoked, net>>

\* ------------------------------------------------------------ createToken.js
AmountInputs == {0, 1}

\* Mutant of CreateMain: the signers are decoded after the upload request
\* has been made.
CreateMainUploadsFirst ==
    /\ script = "createToken" /\ pc = "main"
    /\ \E amount \in AmountInputs, hasSecrets \in BOOLEAN :
          /\ ValidAmount(amount)
          /\ answers' = [NoAnswers EXCEPT !.solPerWallet = amount,
                                          !.secret = IF hasSecrets THEN "valid" ELSE "missing"]
          /\ net' = Append(net, Ev("upload", "call", 0, NoKey, NoKey, 0))
          /\ IF hasSecrets
                THEN /\ console' = console \o <<Line("Preparing to create token...", 0),
                                                Line("Uploading metadata to IPFS...", 0)>>
                     /\ pc' = "upload"
                ELSE /\ console' = console \o <<Line("Preparing to create token...", 0),
                                                Line("Uploading metadata to IPFS...", 0),
                                                Line("Error creating token:", 0),
                                                Line("An error occurred:", 0)>>
                     /\ pc' = "done"
    /\ UNCHANGED <<script, files, i, shuffledWallets, cur, total, reported, invoked>>

\* main() and createTokenBundle up to the upload.  Decoding an absent
\* WALLET_A_PRIVATE_KEY or WALLET_B_PRIVATE_KEY throws.
CreateMain ==
    /\ script = "createToken" /\ pc = "main"
    /\ \E amount \in AmountInputs, hasSecrets \in BOOLEAN :
          /\ ValidAmount(amount)
          /\ answers' = [NoAnswers EXCEPT !.solPerWallet = amount,
                                          !.secret = IF hasSecrets THEN "valid" ELSE "missing"]
          /\ IF hasSecrets
                THEN /\ console' = console \o <<Line("Preparing to create token...", 0),
                                                Line("Uploading metadata to IPFS...", 0)>>
                     /\ net' = Append(net, Ev("upload", "call", 0, NoKey, NoKey, 0))
                     /\ pc' = "upload"
                ELSE /\ console' = console \o <<Line("Preparing to create token...", 0),
                                                Line("Error creating token:", 0),
                                                Line("An error occurred:", 0)>>
                     /\ pc' = "done"
                     /\ UNCHANGED net
    /\ UNCHANGED <<script, files, i, shuffledWallets, cur, total, reported, invoked>>

\* What the upload to pump.fun/api/ipfs can do: throw (network error, or a
\* body that is not JSON), answer with an error status and a JSON body, or
\* answer with the metadata URI.  The status of the answer is not read.
UploadOutcomes == {"throw", "httpError", "ok"}

\* createTokenBundle, from the upload to the quote request.
CreateUploadReturn ==
    /\ script = "createToken" /\ pc = "upload"
    /\ \E outcome \in UploadOutcomes :
          IF outcome = "throw"
             THEN /\ console' = console \o <<Line("Error creating token:", 0),
                                             Line("An error occurred:", 0)>>
                  /\ net' = Append(net, Ev("upload", outcome, 0, NoKey, NoKey, 0))
                  /\ pc' = "done"
             ELSE /\ console' = Append(console, Line("Generating transactions...", 0))
                  /\ net' = net \o
                        <<Ev("upload", outcome, 0, NoKey, NoKey, 0),
                          Ev("quote", "call", 0, WalletAKey, MintKey, answers.solPerWallet)>>
                  /\ pc' = "quote"
    /\ UNCHANGED <<script, files, answers, i, shuffledWallets, cur, total,
                   reported, invoked>>

\* createTokenBundle, from the quote response to the bundle: a status other
\* than 200 throws; otherwise both transactions are signed and the bundle
\* is posted to the relay.
CreateQuoteReturn ==
    /\ script = "createToken" /\ pc = "quote"
    /\ \E outcome \in QuoteOutcomes :
          IF outcome = "ok"
             THEN /\ console' = console \o <<Line("Signing transactions...", 0),
                                             Line("Submitting bundle to Jito...", 0)>>
                  /\ net' = net \o
                        <<Ev("quote", outcome, 0, WalletAKey, MintKey, answers.solPerWallet),
                          Ev("sign", "call", 0, WalletAKey, MintKey, answers.solPerWallet),
                          Ev("sign", "call", 0, WalletBKey, MintKey, answers.solPerWallet),
                          Ev("bundle", "call", 0, WalletAKey, MintKey, 2)>>
                  /\ pc' = "bundle"
             ELSE /\ console' = console \o <<Line("Error creating token:", 0),
                                             Line("An error occurred:", 0)>>
                  /\ net' = Append(net, Ev("quote", outcome, 0, WalletAKey, MintKey,
                                           answers.solPerWallet))
                  /\ pc' = "done"
    /\ UNCHANGED <<script, files, answers, i, shuffledWallets, cur, total,
                   reported, invoked>>

\* What the relay can do with the bundle.
BundleOutcomes == {"throw", "rejected", "accepted"}

\* createTokenBundle, the answer of the relay: its status is not read.
CreateBundleReturn ==
    /\ script = "createToken" /\ pc = "bundle"
    /\ \E outcome \in BundleOutcomes :
          /\ net' = Append(net, Ev("bundle", outcome, 0, WalletAKey, MintKey, 2))
          /\ IF outcome = "throw"
                THEN console' = console \o <<Line("Error creating token:", 0),
                                             Line("An error occurred:", 0)>>
                ELSE console' = Append(console, Line("Token created successfully!", 0))
    /\ pc' = "done"
    /\ UNCHANGED <<script, files, answers, i, shuffledWallets, cur, total,
                   reported, invoked>>

\* ------------------------------------------------------------ specifications
Next ==
    \/ \E scriptName \in Scripts : runScript(scriptName)
    \/ NewProcess
    \/ BuyMain \/ BuySleep \/ ExecuteBuyWithWallet \/ BuyQuoteReturn
    \/ BuySendReturn \/ BuyFinish
    \/ SellMain \/ SellSleep \/ ExecuteSellWithWallet \/ SellAccountsReturn
    \/ SellQuoteReturn \/ SellSendReturn \/ SellFinish
    \/ ConsolidateMain \/ ConsolidateLoop \/ ConsolidateFinish
    \/ FundMain \/ FundGenerate \/ FundWalletCall \/ FundSendReturn \/ FundFinish
    \/ CreateMain \/ CreateUploadReturn \/ CreateQuoteReturn \/ CreateBundleReturn

Spec == Init /\ [][Next]_vars

\* consolidateWallet on its own: one call, for some wallet of the list, with
\* a destination in scope.
InitConsolidateWallet ==
    /\ Init
    /\ Len(wallets) > 0

CallConsolidateWallet ==
    /\ script = "none" /\ pc = "menu"
    /\ \E walletIndex \in 0..(Len(wallets) - 1) :
          cur' = [NoCur EXCEPT !.index = walletIndex]
    /\ script' = "consolidate"
    /\ pc' = "consolidateWallet"
    /\ UNCHANGED <<files, answers, i, shuffledWallets, total, reported,
                   invoked, net, console>>

NextConsolidateWallet ==
    \/ CallConsolidateWallet
    \/ ConsolidateWallet \/ ConsolidateBalanceReturn \/ ConsolidateFeeReturn
    \/ ConsolidateSendReturn

SpecConsolidateWallet == InitConsolidateWallet /\ [][NextConsolidateWallet]_vars

\* A sell batch on its own, over a list as generateAndSaveWallets names it
\* ("Wallet 1", "Wallet 2", ...), long enough to hold a wallet without a
\* credential, a wallet without tokens and a wallet with tokens; the
\* credential of one position, any, is not stored.
SellBatchSize == MaxWallets + 1

InitSellBatch ==
    /\ script = "sellBot"
    /\ pc = "main"
    /\ walletConfig = [wallets |-> InitWallets(SellBatchSize, FALSE),
                       delayRange |-> [min |-> DelayMin, max |-> DelayMax]]
    /\ \E gap \in 1..SellBatchSize :
          env = [k \in 1..SellBatchSize |-> IF k = gap THEN NoKey ELSE Key(0, k)]
    /\ backup = [t \in {0} |->
                    [privateKeys |-> [k \in 1..SellBatchSize |-> Key(0, k)],
                     walletPublicKeys |-> [k \in 1..SellBatchSize |-> Key(0, k)]]]
    /\ clock = 0
    /\ answers = NoAnswers
    /\ i = 0
    /\ shuffledWallets = <<>>
    /\ cur = NoCur
    /\ total = 0
    /\ reported = -1
    /\ invoked = <<>>
    /\ net = <<>>
    /\ console = <<>>

NextSellBatch ==
    \/ SellMain \/ SellSleep \/ ExecuteSellWithWallet \/ SellAccountsReturn
    \/ SellQuoteReturn \/ SellSendReturn \/ SellFinish

SpecSellBatch == InitSellBatch /\ [][NextSellBatch]_vars

\* One buy or sell run on its own, in which every delay elapses and every
\* call to a remote service returns or fails: the event loop runs a pending
\* timer or continuation whenever there is one, and the prompts are
\* answered.  The user need not start a script, and the run of a script is
\* one process.
BatchStep ==
    \/ BuyMain \/ BuySleep \/ ExecuteBuyWithWallet \/ BuyQuoteReturn
    \/ BuySendReturn \/ BuyFinish
    \/ SellMain \/ SellSleep \/ ExecuteSellWithWallet \/ SellAccountsReturn
    \/ SellQuoteReturn \/ SellSendReturn \/ SellFinish

NextBatch ==
    \/ runScript("buyBot") \/ runScript("sellBot")
    \/ BatchStep

SpecBatch == Init /\ [][NextBatch]_vars /\ WF_vars(BatchStep)

\* getRandomDelay on its own: a delayRange with 0 <= min <= max (the small
\* ones, and the one generateAndSaveWallets writes), and one call with every
\* value of Math.random(), in thousandths.
DelayRanges ==
    { [min |-> a, max |-> b] : a \in 0..MaxDelay, b \in 0..MaxDelay }
        \cup { [min |-> DelayMin, max |-> DelayMax] }
RandomDraws == 0..999

InitDelay ==
    /\ script = "none"
    /\ pc = "menu"
    /\ \E range \in DelayRanges :
          /\ range.min <= range.max
          /\ walletConfig = [wallets |-> <<>>, delayRange |-> range]
    /\ env = InitEnv(0)
    /\ backup = << >>
    /\ clock = 0
    /\ answers = NoAnswers
    /\ i = 0
    /\ shuffledWallets = <<>>
    /\ cur = NoCur
    /\ total = 0
    /\ reported = -1
    /\ invoked = <<>>
    /\ net = <<>>
    /\ console = <<>>

CallGetRandomDelay ==
    /\ net = <<>>
    /\ \E r \in RandomDraws :
          net' = <<Ev("random", "ok", 0, NoKey, NoKey, r),
                   Ev("sleep", "call", 0, NoKey, NoKey,
                      getRandomDelay(walletConfig.delayRange.min,
                                     walletConfig.delayRange.max, r))>>
    /\ UNCHANGED <<script, pc, files, answers, i, shuffledWallets, cur, total,
                   reported, invoked, console>>

NextDelay == CallGetRandomDelay

SpecDelay == InitDelay /\ [][NextDelay]_vars

\* ------------------------------------------------------------------ claims
Names == 0..(MaxWallets + 1)
BatchScripts == {"buyBot", "sellBot", "fundWallets"}

\* The answers in which a call for the wallet named `name` threw.
Thrown(name) ==
    SelectSeq(net, LAMBDA e : e.who = name /\ e.res \in {"throw", "badTx"})
\* The error lines printed with the name `name`.
ErrorLines(name) ==
    SelectSeq(console, LAMBDA l : l.who = name /\ l.msg \in {"Error with", "Error funding"})
\* The transfers and trades the node accepted.
Submitted == SelectSeq(net, LAMBDA e : e.op = "send" /\ e.res = "ok")
\* The batch loop of this run was entered.
LoopEntered ==
    \E k \in DOMAIN console :
        console[k].msg \in {"Starting multi-wallet buy sequence",
                            "Starting multi-wallet sell sequence",
                            "Starting funding process..."}
\* Every wallet of the list has been invoked exactly once.
InvokedOnceEach ==
    /\ Len(invoked) = Len(wallets)
    /\ \A p \in DOMAIN wallets :
          Cardinality({j \in DOMAIN invoked : invoked[j].wallet = wallets[p]}) = 1

\* C1: in the buy, sell and funding loops every call that throws is caught
\* and printed with the wallet's name, and the loop goes on: when the run is
\* over every wallet of the list has been invoked exactly once.
C1_FailureDoesNotAbortBatch ==
    script \in BatchScripts =>
        /\ \A name \in Names : Len(ErrorLines(name)) = Len(Thrown(name))
        /\ (pc = "done" /\ LoopEntered) => InvokedOnceEach

\* A funding run that is over, whose first transfer threw and whose second
\* transfer went through.
C1_Witness ==
    /\ script = "fundWallets" /\ pc = "done"
    /\ Len(invoked) = 2
    /\ \E j, k \in DOMAIN net :
          /\ j < k
          /\ net[j].op = "send" /\ net[j].res = "throw"
          /\ net[k].op = "send" /\ net[k].res = "ok"

AnswersFor(op, key) ==
    SelectSeq(net, LAMBDA e : e.op = op /\ e.key = key /\ e.res # "call")
TransfersBy(key) ==
    SelectSeq(net, LAMBDA e : e.op = "send" /\ e.key = key /\ e.res = "call")

\* C4: when a confirmed consolidate run is over, every wallet of the list
\* with a stored credential has had its balance and the fee looked up, and
\* if the balance exceeds the fee exactly one transfer of balance - fee to
\* the destination, signed by that wallet, was submitted.
C4_EachWalletConsolidated ==
    (script = "consolidate" /\ pc = "done" /\ answers.confirm) =>
        \A p \in DOMAIN wallets :
            LET key == EnvKey(p - 1)
                balances == AnswersFor("getBalance", key)
                fees == AnswersFor("getFee", key)
            IN key # NoKey =>
                  /\ Len(balances) = 1
                  /\ (balances[1].res = "ok" /\ balances[1].v > 0) => Len(fees) = 1
                  /\ (Len(fees) = 1 /\ fees[1].res = "ok" /\ balances[1].v > fees[1].v) =>
                        /\ Len(TransfersBy(key)) = 1
                        /\ TransfersBy(key)[1].to = BaseKey
                        /\ TransfersBy(key)[1].v = balances[1].v - fees[1].v

\* C5: consolidateWallet never submits a transfer of zero or fewer lamports:
\* a wallet whose balance is at most the fee is skipped.
C5_NoTransferAtOrBelowFee ==
    script = "consolidate" =>
        \A k \in DOMAIN net :
            (net[k].op = "send" /\ net[k].res = "call") => net[k].v > 0

\* C6: nothing is submitted to the chain or to the relay in a run in which
\* the user has not answered yes to a confirmation.
C6_ConfirmedBeforeSubmit ==
    \A k \in DOMAIN net :
        (net[k].op \in {"send", "bundle"} /\ net[k].res = "call") => answers.confirm

\* C7: in a buy or sell batch every quote answered with a status other than
\* 200 is followed by a line that names the wallet and the failure.
C7_Non200IsPrinted ==
    script \in {"buyBot", "sellBot"} =>
        \A name \in Names :
            Len(ErrorLines(name))
                >= Len(SelectSeq(net, LAMBDA e : e.op = "quote" /\ e.who = name
                                                  /\ e.res \in {"throw", "badTx", "non200"}))

\* C8: in token creation a transaction is signed only after the upload and
\* the quote request have both succeeded.
C8_SignAfterUploadAndQuote ==
    script = "createToken" =>
        \A k \in DOMAIN net :
            net[k].op = "sign" =>
                /\ \E j \in 1..(k - 1) : net[j].op = "upload" /\ net[j].res = "ok"
                /\ \E j \in 1..(k - 1) : net[j].op = "quote" /\ net[j].res = "ok"

\* C9: in a sell batch no wallet is processed twice, and when the batch is
\* over the wallets processed are the wallets of the list, each once.
C9_SellOrderIsPermutation ==
    script = "sellBot" =>
        /\ \A j, k \in DOMAIN invoked :
              invoked[j].wallet = invoked[k].wallet => j = k
        /\ \A j \in DOMAIN invoked : \E p \in DOMAIN wallets : invoked[j].wallet = wallets[p]
        /\ (pc = "done" /\ answers.confirm) => InvokedOnceEach

\* A sell batch that is over and processed the second wallet of the list
\* first.
C9_Witness ==
    /\ script = "sellBot" /\ pc = "done"
    /\ Len(invoked) = 2
    /\ invoked[1].wallet = wallets[2]
    /\ invoked[2].wallet = wallets[1]

C11_BuyOrderRandomized ==
    (script = "buyBot" /\ pc = "loop" /\ i = 0 /\ Len(wallets) >= 2) =>
        ENABLED (ExecuteBuyWithWallet /\ invoked'[1].wallet # wallets[1])

\* The delays taken so far in this run.
Sleeps == SelectSeq(net, LAMBDA e : e.op = "sleep")

\* C12: in a buy or sell batch no delay precedes the first invocation and
\* exactly one delay, within the delay range, lies between two consecutive
\* invocations, whatever became of the earlier wallet; a finished batch over
\* n >= 1 wallets took n - 1 delays, one over no wallet took none and made
\* no call.
C12_OneDelayBetweenWallets ==
    script \in {"buyBot", "sellBot"} =>
        /\ Len(Sleeps) = IF pc = "call" THEN Len(invoked)
                         ELSE IF Len(invoked) = 0 THEN 0 ELSE Len(invoked) - 1
        /\ pc = "call" => Len(invoked) >= 1
        /\ \A k \in DOMAIN Sleeps :
              /\ Sleeps[k].v >= walletConfig.delayRange.min
              /\ Sleeps[k].v <= walletConfig.delayRange.max
        /\ (pc = "done" /\ answers.confirm) =>
              /\ Len(invoked) = Len(wallets)
              /\ Len(wallets) = 0 => net = <<>>

\* A buy batch over two wallets that is over: the first wallet was skipped
\* for want of a credential and one delay was taken before the second.
C12_Witness ==
    /\ script = "buyBot" /\ pc = "done"
    /\ Len(invoked) = 2
    /\ EnvKey(0) = NoKey
    /\ Len(Sleeps) = 1

\* C13: for 0 <= min <= max and every draw 0 <= r < 1, getRandomDelay returns
\* an integer d with min <= d <= max, and some draw returns min and some
\* draw returns max.
C13_DelayWithinRange ==
    LET min == walletConfig.delayRange.min
        max == walletConfig.delayRange.max
    IN /\ \A k \in DOMAIN Sleeps : Sleeps[k].v >= min /\ Sleeps[k].v <= max
       /\ \E r \in RandomDraws : getRandomDelay(min, max, r) = min
       /\ \E r \in RandomDraws : getRandomDelay(min, max, r) = max

\* A call that returned max, for a range of more than one value, on a draw
\* below the largest.
C13_Witness ==
    /\ walletConfig.delayRange.min < walletConfig.delayRange.max
    /\ Len(net) = 2
    /\ net[1].op = "random" /\ net[1].v < 999
    /\ net[2].op = "sleep" /\ net[2].v = walletConfig.delayRange.max

\* What was asked, answered, signed and sent for the wallet named `name`.
EventsOf(name) == SelectSeq(net, LAMBDA e : e.who = name)
Printed(msg, who) == \E k \in DOMAIN console : console[k] = Line(msg, who)
Processed(p) == \E j \in DOMAIN invoked : invoked[j].wallet = wallets[p]
\* The wallets whose token account query found no tokens / found tokens.
NoTokens(p) ==
    \E k \in DOMAIN net :
        /\ net[k].op = "getTokenAccounts" /\ net[k].who = wallets[p].name
        /\ net[k].res = "empty" \/ (net[k].res = "ok" /\ net[k].v = 0)
HasTokens(p) ==
    \E k \in DOMAIN net :
        /\ net[k].op = "getTokenAccounts" /\ net[k].who = wallets[p].name
        /\ net[k].res = "ok" /\ net[k].v > 0
QuoteGranted(p) ==
    \E k \in DOMAIN net :
        net[k].op = "quote" /\ net[k].who = wallets[p].name /\ net[k].res = "ok"
Submissions == SelectSeq(net, LAMBDA e : e.op = "send" /\ e.res = "call")

\* C14: in a sell batch a wallet without a stored credential is skipped with
\* a warning and nothing is asked, signed or sent for it; a wallet whose
\* query finds no tokens is skipped with a warning and no quote is asked for
\* it; a wallet with a credential is queried with its own credential and,
\* when it holds tokens, a quote is asked for it wherever it comes in the
\* order, and signed and sent once when the quote is granted.  A finished
\* batch has submitted once per granted quote: once, when one wallet of the
\* batch holds tokens and its quote is granted.
C14_SkipsDoNotStopTheSale ==
    script = "sellBot" =>
        /\ \A p \in DOMAIN wallets :
              LET name == wallets[p].name
                  events == EventsOf(name)
                  ops == {events[k].op : k \in DOMAIN events}
                  noTokens == \E k \in DOMAIN events :
                                 /\ events[k].op = "getTokenAccounts"
                                 /\ \/ events[k].res = "empty"
                                    \/ events[k].res = "ok" /\ events[k].v = 0
                  hasTokens == \E k \in DOMAIN events :
                                  /\ events[k].op = "getTokenAccounts"
                                  /\ events[k].res = "ok" /\ events[k].v > 0
                  granted == \E k \in DOMAIN events :
                                events[k].op = "quote" /\ events[k].res = "ok"
                  sent == {k \in DOMAIN events :
                              events[k].op = "send" /\ events[k].res = "call"}
              IN /\ (Processed(p) /\ env[p] = NoKey) =>
                        /\ events = <<>>
                        /\ Printed("Skipping wallet - No private key found", p)
                 /\ (Processed(p) /\ env[p] # NoKey) =>
                        /\ events # <<>>
                        /\ events[1].op = "getTokenAccounts"
                        /\ \A k \in DOMAIN events : events[k].key = env[p]
                 /\ noTokens =>
                        /\ ops = {"getTokenAccounts"}
                        /\ \/ Printed("No token balance found for", name)
                           \/ Printed("Insufficient balance for", name)
                 /\ hasTokens => "quote" \in ops
                 /\ Cardinality(sent) = IF granted THEN 1 ELSE 0
        /\ (pc = "done" /\ answers.confirm) =>
              /\ \A p \in DOMAIN wallets : Processed(p)
              /\ Len(Submissions) = Cardinality({p \in DOMAIN wallets : QuoteGranted(p)})
              /\ Cardinality({p \in DOMAIN wallets : HasTokens(p)}) = 1 =>
                    Len(Submissions) <= 1

\* A finished sell batch over three wallets: the first processed had no
\* credential, the second no tokens, the third was sold.
C14_Witness ==
    /\ script = "sellBot" /\ pc = "done"
    /\ Len(invoked) = 3
    /\ env[invoked[1].index + 1] = NoKey
    /\ \E p \in DOMAIN wallets : invoked[2].wallet = wallets[p] /\ NoTokens(p)
    /\ \E p \in DOMAIN wallets : invoked[3].wallet = wallets[p] /\ QuoteGranted(p)
    /\ Len(Submissions) = 1
    /\ Len(Submitted) = 1

\* C15: in a funding run every transfer goes to a wallet of the active set
\* just written whose private key is in the backup batch of this run and in
\* .env, and a run in which writing one of the three files failed sends
\* nothing.
C15_PersistedBeforeTransfer ==
    script = "fundWallets" =>
        /\ \A k \in DOMAIN net :
              net[k].op = "send" =>
                 /\ clock \in DOMAIN backup
                 /\ \E p \in 1..answers.numberOfWallets :
                       /\ p \in DOMAIN wallets
                       /\ wallets[p].publicKey = net[k].to
                       /\ p \in DOMAIN backup[clock].privateKeys
                       /\ backup[clock].privateKeys[p] = net[k].to
                       /\ backup[clock].walletPublicKeys[p] = net[k].to
                       /\ env[p] = net[k].to
        /\ net # <<>> => Printed("Wallets generated and saved!", 0)
        /\ Printed("An error occurred:", 0) => net = <<>>

\* A funding run that has submitted the transfer to its second wallet.
C15_Witness ==
    /\ script = "fundWallets" /\ pc = "send"
    /\ cur.index = 1
    /\ net[Len(net)].op = "send" /\ net[Len(net)].to = wallets[2].publicKey

\* C16: a run that finds its secret missing (FUNDING_WALLET_PRIVATE_KEY,
\* BASE_WALLET_ADDRESS, WALLET_A_PRIVATE_KEY or WALLET_B_PRIVATE_KEY) or the
\* destination address malformed ends without having made a network call.
C16_NoCallWithoutSecret ==
    answers.secret \in {"missing", "malformed"} =>
        /\ net = <<>>
        /\ pc = "done"

\* A token creation that found a signer's key missing and is over.
C16_Witness ==
    /\ script = "createToken" /\ pc = "done"
    /\ answers.secret = "missing"
    /\ Printed("Error creating token:", 0)

\* C17: every trade quote request of the buy, sell and token creation flows
\* carries an amount greater than 0 and a slippage from 1 to 100.
C17_QuoteAmountAndSlippage ==
    \A k \in DOMAIN net :
        (net[k].op = "quote" /\ net[k].res = "call") =>
            /\ net[k].v > 0
            /\ QuoteSlippage >= 1 /\ QuoteSlippage <= 100

\* The calls a wallet operation awaits, and their answers.
WalletOps == {"getTokenAccounts", "quote", "send", "getBalance", "getFee"}
Calls == SelectSeq(net, LAMBDA e : e.op \in WalletOps /\ e.res = "call")
Answers == SelectSeq(net, LAMBDA e : e.op \in WalletOps /\ e.res # "call")
\* The call with which a wallet's operation begins.
FirstOp == [buyBot |-> "quote", sellBot |-> "getTokenAccounts",
            fundWallets |-> "send", consolidate |-> "getBalance"]

\* C18: in a batch at most one call is out at any time, it is a call of the
\* wallet in hand, and every call is answered before the next is made; in
\* buy and sell the first call of a wallet other than the first comes right
\* after a delay, and a delay is taken only when no call is out.
C18_OneWalletAtATime ==
    script \in {"buyBot", "sellBot", "fundWallets", "consolidate"} =>
        /\ LET calls == Calls
               answered == Answers
           IN /\ Len(calls) - Len(answered) \in {0, 1}
              /\ Len(calls) > Len(answered) =>
                    /\ cur # NoCur
                    /\ calls[Len(calls)].who = cur.wallet.name
                    /\ calls[Len(calls)].key = cur.key
              /\ \A k \in DOMAIN answered :
                    /\ answered[k].op = calls[k].op
                    /\ answered[k].who = calls[k].who
        /\ \A k \in DOMAIN net :
              /\ (net[k].op = "sleep" /\ k > 1) =>
                    net[k - 1].op = "sleep" \/ net[k - 1].res # "call"
              /\ (script \in {"buyBot", "sellBot"} /\ k > 1
                     /\ net[k].op = FirstOp[script] /\ net[k].res = "call") =>
                    net[k - 1].op = "sleep"

\* A buy batch over two wallets that is over: both quotes were asked and
\* answered, the second after the delay.
C18_Witness ==
    /\ script = "buyBot" /\ pc = "done"
    /\ Len(Calls) >= 2 /\ Len(Answers) = Len(Calls)
    /\ Calls[1].key # Calls[Len(Calls)].key
    /\ Len(Sleeps) = 1

\* C19: token creation prints its success message only when the relay has
\* accepted the bundle.
C19_SuccessOnlyIfAccepted ==
    (script = "createToken" /\ Printed("Token created successfully!", 0)) =>
        \E k \in DOMAIN net : net[k].op = "bundle" /\ net[k].res = "accepted"

\* C20: once generateAndSaveWallets(N) has completed, the active set holds
\* N wallets and for every i in 1..N the credential WALLET_<i>_PRIVATE_KEY
\* in .env, the one in the newest backup batch, the i-th public key of that
\* batch and the i-th wallet's publicKey are of one keypair, the i-th
\* generated in this run.
C20_KeysAligned ==
    (script = "fundWallets" /\ Printed("Wallets generated and saved!", 0)) =>
        /\ Len(wallets) = answers.numberOfWallets
        /\ clock \in DOMAIN backup
        /\ \A t \in DOMAIN backup : t <= clock
        /\ \A p \in 1..answers.numberOfWallets :
              /\ env[p] = Key(clock, p)
              /\ backup[clock].privateKeys[p] = Key(clock, p)
              /\ backup[clock].walletPublicKeys[p] = Key(clock, p)
              /\ wallets[p].publicKey = Key(clock, p)

\* generateAndSaveWallets(2) has completed over a .env that held older
\* credentials or none for the first wallet.
C20_Witness ==
    /\ script = "fundWallets" /\ pc = "loop" /\ i = 0
    /\ answers.numberOfWallets = 2
    /\ env[2] = wallets[2].publicKey
    /\ env[2] # backup[0].privateKeys[2]

\* C21: in a sell batch every wallet is processed with the walletIndex of
\* its own position in the configured list, so that it is signed with the
\* credential stored for that position, and no walletIndex is used for two
\* wallets of one batch.
C21_SellUsesOwnCredential ==
    script = "sellBot" =>
        /\ \A j \in DOMAIN invoked :
              /\ invoked[j].index + 1 \in DOMAIN wallets
              /\ wallets[invoked[j].index + 1] = invoked[j].wallet
        /\ \A j, k \in DOMAIN invoked :
              invoked[j].index = invoked[k].index => j = k

\* C22: a buy, sell or consolidate run in which the user answered no to the
\* confirmation is over, its last line is 'Operation cancelled', and it has
\* invoked no wallet operation and made no call.
C22_NoMeansNothingHappens ==
    (/\ script \in {"buyBot", "sellBot", "consolidate"}
     /\ pc # "main"
     /\ answers.secret \notin {"missing", "malformed"}
     /\ ~answers.confirm) =>
        /\ pc = "done"
        /\ console # <<>>
        /\ console[Len(console)] = Line("Operation cancelled", 0)
        /\ net = <<>>
        /\ invoked = <<>>

\* A sell run over a list of two wallets that the user declined.
C22_Witness ==
    /\ script = "sellBot" /\ pc = "done"
    /\ ~answers.confirm
    /\ answers.slippage >= 1
    /\ Len(wallets) = 2
    /\ Printed("Operation cancelled", 0)

\* The completion message of the batch of this run has been printed.
Completed ==
    \/ script = "buyBot" /\ Printed("Multi-wallet buy sequence completed!", 0)
    \/ script = "sellBot" /\ Printed("Multi-wallet sell sequence completed!", 0)

\* C23: when every call and every delay returns, a confirmed buy or sell
\* batch over n wallets ends with its completion message after exactly n
\* per-wallet invocations, whatever failed or was skipped on the way.
C23_BatchTerminates ==
    (script \in {"buyBot", "sellBot"} /\ pc = "loop" /\ i = 0)
        ~> (pc = "done" /\ Completed /\ Len(invoked) = Len(wallets))

\* A buy batch over two wallets that reached its completion message after
\* the first wallet was skipped and the second one's submission threw.
C23_Witness ==
    /\ script = "buyBot" /\ pc = "done" /\ Completed
    /\ Len(invoked) = 2
    /\ Printed("Skipping wallet - No private key found", 1)
    /\ \E k \in DOMAIN net : net[k].op = "send" /\ net[k].res = "throw"
====
